---- MODULE Spec2Model ----
(***************************************************************************)
(* Monthly overdue-invoice reminder: the three scheduled-script variants   *)
(* of the repository.                                                      *)
(*   variant 1: _jj_sc_monthly_overdue_email.js, first define() block      *)
(*              (execute / searchOverdueInvoices /                         *)
(*               processCustomerNotifications / sendCustomerEmail /        *)
(*               getSenderId / createCSVFile)                              *)
(*   variant 2: _jj_sc_monthly_overdue_email.js, second define() block     *)
(*              (execute / getOverdueInvoices / notifyCustomers /          *)
(*               getSenderId / generateCsvFile)                            *)
(*   variant 3: unnamed/part_000 (one execute function)                    *)
(*                                                                         *)
(* Text that the scripts take apart or put together (identifiers, invoice  *)
(* numbers, names, e-mail addresses) is a sequence of one-character        *)
(* strings; fixed titles and messages are TLA+ strings.  An instant is a   *)
(* number of milliseconds since the epoch, kept as whole days plus the     *)
(* milliseconds within the day, [d, ms] = d * MsPerDay + ms, because the   *)
(* millisecond count of a date does not fit a 32-bit integer.              *)
(***************************************************************************)
EXTENDS Integers, Sequences, FiniteSets, TLC

VARIABLES
    variant,           \* which of the three scripts the scheduler runs
    pc,                \* "start" | "each" | "notify" | "done" | "failed"
    results,           \* rows the search has handed to the each() callback
    customerInvoices,  \* customerId -> sequence of invoice summaries
    origin,            \* customerId -> row index behind each summary (history)
    processedInvoices, \* variant 1: the invoice keys already seen
    invoiceCount,      \* variants 1 and 3: the counter of the callback
    clock,             \* the last instant the system clock returned
    pending,           \* customer ids the for-in loop has still to visit
    calls,             \* calls made to N/search lookups, N/record, N/file, N/email
    logs,              \* entries written with N/log
    thrown             \* the message of the error that reached the scheduler

vars == <<variant, pc, results, customerInvoices, origin, processedInvoices,
          invoiceCount, clock, pending, calls, logs, thrown>>

-----------------------------------------------------------------------------
(* Bounds of the model *)

MaxRows == 3

-----------------------------------------------------------------------------
(* Text *)

Digits == {"0", "1", "2", "3", "4", "5", "6", "7", "8", "9"}

Alnum == Digits \cup
    {"a", "b", "c", "d", "e", "f", "g", "h", "i", "j", "k", "l", "m",
     "n", "o", "p", "q", "r", "s", "t", "u", "v", "w", "x", "y", "z",
     "A", "B", "C", "D", "E", "F", "G", "H", "I", "J", "K", "L", "M",
     "N", "O", "P", "Q", "R", "S", "T", "U", "V", "W", "X", "Y", "Z"}

DigitVal(ch) ==
    CASE ch = "0" -> 0 [] ch = "1" -> 1 [] ch = "2" -> 2 [] ch = "3" -> 3
      [] ch = "4" -> 4 [] ch = "5" -> 5 [] ch = "6" -> 6 [] ch = "7" -> 7
      [] ch = "8" -> 8 [] ch = "9" -> 9

\* parseInt on an internal id: the decimal value of its leading digits
RECURSIVE ParseIntFrom(_, _, _)
ParseIntFrom(s, i, acc) ==
    IF i > Len(s) \/ s[i] \notin Digits
    THEN acc
    ELSE ParseIntFrom(s, i + 1, acc * 10 + DigitVal(s[i]))

ParseInt(s) == ParseIntFrom(s, 1, 0)

\* a JavaScript value is falsy when it is the empty string, null or undefined
Falsy(s) == s = <<>>

\* a || b
OrElse(a, b) == IF Falsy(a) THEN b ELSE a

\* customerName.replace(/[^a-zA-Z0-9]/g, '_')
ReplaceNonAlnum(s) == [i \in 1..Len(s) |-> IF s[i] \in Alnum THEN s[i] ELSE "_"]

\* for (const k in obj): integer-like keys in ascending numeric order
RECURSIVE KeysInOrder(_)
KeysInOrder(S) ==
    IF S = {} THEN <<>>
    ELSE LET k == CHOOSE x \in S : \A y \in S : ParseInt(x) <= ParseInt(y)
         IN  <<k>> \o KeysInOrder(S \ {k})

\* mutant: the array is created anew on every row
Push_reset(obj, key, value) ==
    IF key \in DOMAIN obj
    THEN [obj EXCEPT ![key] = <<value>>]
    ELSE obj @@ (key :> <<value>>)

\* obj[key].push(value), creating the array on first use
Push(obj, key, value) ==
    IF key \in DOMAIN obj
    THEN [obj EXCEPT ![key] = Append(@, value)]
    ELSE obj @@ (key :> <<value>>)

-----------------------------------------------------------------------------
(* Instants *)

MsPerDay == 1000 * 60 * 60 * 24

\* a - b in milliseconds, as whole days d and 0 <= ms < MsPerDay
MsDiff(a, b) ==
    IF a.ms >= b.ms
    THEN [d |-> a.d - b.d, ms |-> a.ms - b.ms]
    ELSE [d |-> a.d - b.d - 1, ms |-> a.ms - b.ms + MsPerDay]

\* mutant: Math.round(diff / (1000 * 60 * 60 * 24))
FloorDays_round(diff) == diff.d + (IF 2 * diff.ms >= MsPerDay THEN 1 ELSE 0)

\* Math.floor(diff / (1000 * 60 * 60 * 24))
FloorDays(diff) == diff.d

\* Math.floor((new Date() - dueDate) / (1000 * 60 * 60 * 24))
DaysOverdue(now, dueDate) == FloorDays(MsDiff(now, dueDate))

\* a <= b on instants
NotAfter(a, b) == a.d < b.d \/ (a.d = b.d /\ a.ms <= b.ms)

-----------------------------------------------------------------------------
(* Log entries and errors *)

Log(level, title, details) == [level |-> level, title |-> title, details |-> details]

\* an error raised by the platform: e.message
Err(message) == [message |-> message]

NoError == ""

-----------------------------------------------------------------------------
(* Initial state: the scheduler is about to call execute of one variant *)

Epoch == [d |-> 0, ms |-> 0]

Init ==
    /\ variant \in {1, 2, 3}
    /\ pc = "start"
    /\ results = <<>>
    /\ customerInvoices = <<>>
    /\ origin = <<>>
    /\ processedInvoices = {}
    /\ invoiceCount = 0
    /\ clock = Epoch
    /\ pending = <<>>
    /\ calls = <<>>
    /\ logs = <<>>
    /\ thrown = NoError

\* the stages at which the invoice search can raise
SearchStages == {"create", "run", "each"}

SearchError(stage) ==
    CASE stage = "create" -> Err("SSS_INVALID_SRCH_FILTER")
      [] stage = "run"    -> Err("SSS_REQUEST_TIME_EXCEEDED")
      [] stage = "each"   -> Err("SSS_SEARCH_FOR_EACH_LIMIT_EXCEEDED")

\* where the run stands when the search raises at this stage
StageReached(stage) ==
    IF stage = "each" THEN pc = "each" ELSE pc = "start"

\* the summary pushed for a row
Summary(invoiceNumber, amount, daysOverdue) ==
    [invoiceNumber |-> invoiceNumber, amount |-> amount, daysOverdue |-> daysOverdue]

\* history: the row behind a summary and the instant new Date() returned for it
Origin(index, now) == [index |-> index, now |-> now]

\* the invoice numbers of a group joined with ', ' (kept as the list joined)
InvoiceNumbers(invoices) == [i \in 1..Len(invoices) |-> invoices[i].invoiceNumber]

-----------------------------------------------------------------------------
(* Variant 1: execute and searchOverdueInvoices *)

\* mutant: `${customerId}${invoiceNumber}`, the key without its separator
InvoiceKey_noSeparator(customerId, invoiceNumber) == customerId \o invoiceNumber

\* `${customerId}_${invoiceNumber}`
InvoiceKey(customerId, invoiceNumber) == customerId \o <<"_">> \o invoiceNumber

\* execute up to invoiceSearch.run() returning
execute1_start ==
    /\ variant = 1 /\ pc = "start"
    /\ logs' = Append(logs, Log("audit", "Script Started",
                                "Monthly Overdue Invoice Email Notification"))
    /\ pc' = "each"
    /\ UNCHANGED <<variant, results, customerInvoices, origin, processedInvoices,
                   invoiceCount, clock, pending, calls, thrown>>

\* mutant: the catch block of execute logs the error and does not rethrow it
searchOverdueInvoices_throws_swallowed(stage) ==
    /\ variant = 1 /\ StageReached(stage)
    /\ LET e == SearchError(stage)
           started == IF pc = "start"
                      THEN <<Log("audit", "Script Started",
                                 "Monthly Overdue Invoice Email Notification")>>
                      ELSE <<>>
       IN  logs' = logs \o started \o
                   <<Log("error", "Search Error", e),
                     Log("error", "Script Execution Error", e)>>
    /\ pc' = "done"
    /\ UNCHANGED <<variant, results, customerInvoices, origin, processedInvoices,
                   invoiceCount, clock, pending, calls, thrown>>

\* search.create, run or each raises: both catch blocks log and rethrow
searchOverdueInvoices_throws(stage) ==
    /\ variant = 1 /\ StageReached(stage)
    /\ LET e == SearchError(stage)
           started == IF pc = "start"
                      THEN <<Log("audit", "Script Started",
                                 "Monthly Overdue Invoice Email Notification")>>
                      ELSE <<>>
       IN  /\ logs' = logs \o started \o
                      <<Log("error", "Search Error", e),
                        Log("error", "Script Execution Error", e)>>
           /\ thrown' = e.message
    /\ pc' = "failed"
    /\ UNCHANGED <<variant, results, customerInvoices, origin, processedInvoices,
                   invoiceCount, clock, pending, calls>>

\* the each() callback on one result row
searchOverdueInvoices_each(row, now) ==
    /\ variant = 1 /\ pc = "each" /\ Len(results) < MaxRows
    /\ NotAfter(clock, now)
    /\ results' = Append(results, row)
    /\ LET customerId == row.entity
           invoiceNumber == row.tranid
           invoiceKey == InvoiceKey(customerId, invoiceNumber)
       IN  IF Falsy(customerId) \/ invoiceKey \in processedInvoices
           THEN UNCHANGED <<customerInvoices, origin, processedInvoices,
                            invoiceCount, clock>>
           ELSE /\ processedInvoices' = processedInvoices \cup {invoiceKey}
                /\ invoiceCount' = invoiceCount + 1
                /\ clock' = now
                /\ customerInvoices' =
                       Push(customerInvoices, customerId,
                            Summary(invoiceNumber, row.amount,
                                    DaysOverdue(now, row.duedate)))
                /\ origin' = Push(origin, customerId, Origin(Len(results) + 1, now))
    /\ UNCHANGED <<variant, pc, pending, calls, logs, thrown>>

\* the audit entries searchOverdueInvoices writes after the iteration
SearchAuditLogs ==
    <<Log("audit", "Invoices Found", [invoiceCount |-> invoiceCount])>> \o
    LET keys == KeysInOrder(DOMAIN customerInvoices)
    IN  [i \in 1..Len(keys) |->
            Log("audit", "Customer Invoices",
                [customerId |-> keys[i],
                 count |-> Len(customerInvoices[keys[i]]),
                 invoiceNumbers |-> InvoiceNumbers(customerInvoices[keys[i]])])]

\* the iteration ends; searchOverdueInvoices returns and execute branches
searchOverdueInvoices_end ==
    /\ variant = 1 /\ pc = "each"
    /\ IF DOMAIN customerInvoices = {}
       THEN /\ logs' = logs \o SearchAuditLogs \o
                       <<Log("audit", "No Invoices Found",
                             "No overdue invoices were found for the previous month.")>>
            /\ pc' = "done"
            /\ pending' = <<>>
       ELSE /\ logs' = logs \o SearchAuditLogs \o
                       <<Log("audit", "Customers to Notify",
                             [customers |-> Cardinality(DOMAIN customerInvoices)])>>
            /\ pc' = "notify"
            /\ pending' = KeysInOrder(DOMAIN customerInvoices)
    /\ UNCHANGED <<variant, results, customerInvoices, origin, processedInvoices,
                   invoiceCount, clock, calls, thrown>>

-----------------------------------------------------------------------------
(* Variant 2: execute and getOverdueInvoices *)

\* execute up to invoiceSearch.run() returning
getOverdueInvoices_start ==
    /\ variant = 2 /\ pc = "start"
    /\ pc' = "each"
    /\ UNCHANGED <<variant, results, customerInvoices, origin, processedInvoices,
                   invoiceCount, clock, pending, calls, logs, thrown>>

\* search.create, run or each raises: nothing catches it
getOverdueInvoices_throws(stage) ==
    /\ variant = 2 /\ StageReached(stage)
    /\ thrown' = SearchError(stage).message
    /\ pc' = "failed"
    /\ UNCHANGED <<variant, results, customerInvoices, origin, processedInvoices,
                   invoiceCount, clock, pending, calls, logs>>

\* the each() callback on one result row
getOverdueInvoices_each(row, now) ==
    /\ variant = 2 /\ pc = "each" /\ Len(results) < MaxRows
    /\ NotAfter(clock, now)
    /\ results' = Append(results, row)
    /\ LET customerId == row.entity
       IN  IF Falsy(customerId)
           THEN UNCHANGED <<customerInvoices, origin, clock>>
           ELSE /\ clock' = now
                /\ customerInvoices' =
                       Push(customerInvoices, customerId,
                            Summary(row.tranid, row.amount,
                                    DaysOverdue(now, row.duedate)))
                /\ origin' = Push(origin, customerId, Origin(Len(results) + 1, now))
    /\ UNCHANGED <<variant, pc, processedInvoices, invoiceCount, pending, calls,
                   logs, thrown>>

\* the iteration ends; getOverdueInvoices returns and execute branches
getOverdueInvoices_end ==
    /\ variant = 2 /\ pc = "each"
    /\ IF DOMAIN customerInvoices = {}
       THEN /\ logs' = Append(logs,
                         Log("audit", "No Invoices Found",
                             "No overdue invoices were found for the previous month."))
            /\ pc' = "done"
            /\ pending' = <<>>
       ELSE /\ logs' = logs
            /\ pc' = "notify"
            /\ pending' = KeysInOrder(DOMAIN customerInvoices)
    /\ UNCHANGED <<variant, results, customerInvoices, origin, processedInvoices,
                   invoiceCount, clock, calls, thrown>>

-----------------------------------------------------------------------------
(* Variant 3: execute, the search and the grouping *)

\* execute up to invoiceSearch.run() returning
execute3_start ==
    /\ variant = 3 /\ pc = "start"
    /\ logs' = Append(logs, Log("audit", "Script Started", ""))
    /\ pc' = "each"
    /\ UNCHANGED <<variant, results, customerInvoices, origin, processedInvoices,
                   invoiceCount, clock, pending, calls, thrown>>

\* search.create, run or each raises: nothing catches it
execute3_throws(stage) ==
    /\ variant = 3 /\ StageReached(stage)
    /\ logs' = IF pc = "start"
               THEN Append(logs, Log("audit", "Script Started", ""))
               ELSE logs
    /\ thrown' = SearchError(stage).message
    /\ pc' = "failed"
    /\ UNCHANGED <<variant, results, customerInvoices, origin, processedInvoices,
                   invoiceCount, clock, pending, calls>>

\* mutant: the callback without its customer test, the row is grouped under ''
execute3_each_noCustomerTest(row, now) ==
    /\ variant = 3 /\ pc = "each" /\ Len(results) < MaxRows
    /\ NotAfter(clock, now)
    /\ results' = Append(results, row)
    /\ LET customerId == row.entity
           daysOverdue == DaysOverdue(now, row.duedate)
       IN  /\ invoiceCount' = invoiceCount + 1
           /\ clock' = now
           /\ logs' = Append(logs,
                        Log("debug", "Invoice Found",
                            [customerId |-> customerId,
                             invoiceNumber |-> row.tranid,
                             amount |-> row.amount,
                             daysOverdue |-> daysOverdue]))
           /\ customerInvoices' =
                  Push(customerInvoices, customerId,
                       Summary(row.tranid, row.amount, daysOverdue))
           /\ origin' = Push(origin, customerId, Origin(Len(results) + 1, now))
    /\ UNCHANGED <<variant, pc, processedInvoices, pending, calls, thrown>>

\* the each() callback on one result row
execute3_each(row, now) ==
    /\ variant = 3 /\ pc = "each" /\ Len(results) < MaxRows
    /\ NotAfter(clock, now)
    /\ results' = Append(results, row)
    /\ LET customerId == row.entity
           daysOverdue == DaysOverdue(now, row.duedate)
       IN  IF Falsy(customerId)
           THEN /\ logs' = Append(logs,
                             Log("error", "Missing Customer ID",
                                 "Skipping invoice with no customer ID."))
                /\ UNCHANGED <<customerInvoices, origin, invoiceCount, clock>>
           ELSE /\ invoiceCount' = invoiceCount + 1
                /\ clock' = now
                /\ logs' = Append(logs,
                             Log("debug", "Invoice Found",
                                 [customerId |-> customerId,
                                  invoiceNumber |-> row.tranid,
                                  amount |-> row.amount,
                                  daysOverdue |-> daysOverdue]))
                /\ customerInvoices' =
                       Push(customerInvoices, customerId,
                            Summary(row.tranid, row.amount, daysOverdue))
                /\ origin' = Push(origin, customerId, Origin(Len(results) + 1, now))
    /\ UNCHANGED <<variant, pc, processedInvoices, pending, calls, thrown>>

\* mutant: invoiceCount++ before the customer test, so every row is counted
execute3_end_countsRows ==
    /\ variant = 3 /\ pc = "each"
    /\ IF Len(results) = 0
       THEN /\ logs' = Append(logs,
                         Log("audit", "No Invoices Found",
                             "No overdue invoices were found for the previous month."))
            /\ pc' = "done"
            /\ pending' = <<>>
       ELSE /\ logs' = logs \o
                       <<Log("audit", "Invoices Found", [invoiceCount |-> Len(results)]),
                         Log("audit", "Customers to Notify",
                             [customers |-> Cardinality(DOMAIN customerInvoices)])>>
            /\ pc' = "notify"
            /\ pending' = KeysInOrder(DOMAIN customerInvoices)
    /\ UNCHANGED <<variant, results, customerInvoices, origin, processedInvoices,
                   invoiceCount, clock, calls, thrown>>

\* the iteration ends and execute branches on invoiceCount
execute3_end ==
    /\ variant = 3 /\ pc = "each"
    /\ IF invoiceCount = 0
       THEN /\ logs' = Append(logs,
                         Log("audit", "No Invoices Found",
                             "No overdue invoices were found for the previous month."))
            /\ pc' = "done"
            /\ pending' = <<>>
       ELSE /\ logs' = logs \o
                       <<Log("audit", "Invoices Found", [invoiceCount |-> invoiceCount]),
                         Log("audit", "Customers to Notify",
                             [customers |-> Cardinality(DOMAIN customerInvoices)])>>
            /\ pc' = "notify"
            /\ pending' = KeysInOrder(DOMAIN customerInvoices)
    /\ UNCHANGED <<variant, results, customerInvoices, origin, processedInvoices,
                   invoiceCount, clock, calls, thrown>>

-----------------------------------------------------------------------------
(* The platform as the customer loop sees it *)

\* one call to the platform, made while the loop stands at `customer`: what
\* was asked, whether it returned (ok) or raised, and the value or the error
Call(api, customer, args, ok, result) ==
    [api |-> api, customer |-> customer, args |-> args, ok |-> ok, result |-> result]

\* the e-mail address an employee record carries when it has one
RepEmail == <<"r", "@", "x">>

\* what the platform answers during one pass of the customer loop:
\*   lookup   "ok" | "throws"            the customer lookup / record.load
\*   companyname, firstname, email       the customer's fields
\*   salesrep                            the sales rep's id, <<>> when none
\*   employee "email" | "noemail" | "throws"   the sales rep lookup
\*   file     "ok" | "create" | "save" | "load"  the file call that raises
\*   send     "ok" | "throws"            email.send
Answer(lookup, name, email, salesrep, employee, fileAnswer, send) ==
    [lookup |-> lookup, companyname |-> name.companyname,
     firstname |-> name.firstname, email |-> email, salesrep |-> salesrep,
     employee |-> employee, file |-> fileAnswer, send |-> send]

LookupError == Err("RCRD_DSNT_EXIST")
EmployeeError == Err("INSUFFICIENT_PERMISSION")
FileError(op) == Err(CASE op = "create" -> "SSS_FILE_CONTENT_SIZE_EXCEEDED"
                       [] op = "save"   -> "INVALID_FOLDER"
                       [] op = "load"   -> "FILE_NOT_FOUND")
SendError == Err("SSS_INVALID_TO_EMAIL")

AdminId == -5

Subject == "Overdue Invoice Notification"

\* an effect-free result of part of a pass: calls made, entries logged, and
\* either a value or the error raised
Returned(value, cs, ls) == [ok |-> TRUE, value |-> value, calls |-> cs, logs |-> ls]
Raised(e, cs, ls) == [ok |-> FALSE, error |-> e, calls |-> cs, logs |-> ls]

-----------------------------------------------------------------------------
(* Variant 1: getSenderId, createCSVFile, sendCustomerEmail *)

\* mutant: the sales rep is the sender whether or not it has an e-mail address
getSenderId1_anyRep(customerId, salesRepId, customerName, a) ==
    IF Falsy(salesRepId)
    THEN Returned(AdminId, <<>>, <<>>)
    ELSE LET lookup(ok, result) ==
                 Call("search.lookupFields", customerId,
                      [type |-> "employee", id |-> salesRepId], ok, result)
         IN  CASE a.employee = "throws" ->
                    Returned(AdminId, <<lookup(FALSE, EmployeeError)>>,
                             <<Log("error", "Sales Rep Load Error",
                                   [salesRepId |-> salesRepId,
                                    message |-> EmployeeError.message])>>)
               [] a.employee = "email" ->
                    Returned(ParseInt(salesRepId),
                             <<lookup(TRUE, [email |-> RepEmail])>>, <<>>)
               [] OTHER ->
                    Returned(ParseInt(salesRepId),
                             <<lookup(TRUE, [email |-> <<>>])>>, <<>>)

\* getSenderId(salesRepId, customerName)
getSenderId1(customerId, salesRepId, customerName, a) ==
    IF Falsy(salesRepId)
    THEN Returned(AdminId, <<>>, <<>>)
    ELSE LET lookup(ok, result) ==
                 Call("search.lookupFields", customerId,
                      [type |-> "employee", id |-> salesRepId], ok, result)
         IN  CASE a.employee = "throws" ->
                    Returned(AdminId, <<lookup(FALSE, EmployeeError)>>,
                             <<Log("error", "Sales Rep Load Error",
                                   [salesRepId |-> salesRepId,
                                    message |-> EmployeeError.message])>>)
               [] a.employee = "email" ->
                    Returned(ParseInt(salesRepId),
                             <<lookup(TRUE, [email |-> RepEmail])>>, <<>>)
               [] OTHER ->
                    Returned(AdminId, <<lookup(TRUE, [email |-> <<>>])>>,
                             <<Log("audit", "Sales Rep Missing Email",
                                   [customerName |-> customerName])>>)

CsvHeader1 == <<"Customer Name", "Customer Email", "Invoice Document Number",
                "Invoice Amount", "Days Overdue">>

\* "${s}"
Quoted(s) == <<"\"">> \o s \o <<"\"">>

CsvRow1(customerName, customerEmail, inv) ==
    <<Quoted(customerName), Quoted(customerEmail), inv.invoiceNumber, inv.amount,
      inv.daysOverdue>>

\* mutant: the rows are written from the second invoice on
CsvContent1_skipFirst(customerName, customerEmail, invoices) ==
    <<CsvHeader1>> \o
    [i \in 1..(Len(invoices) - 1) |->
        CsvRow1(customerName, customerEmail, invoices[i + 1])]

\* csvContent as its lines, each ended by '\n' in the script
CsvContent1(customerName, customerEmail, invoices) ==
    <<CsvHeader1>> \o
    [i \in 1..Len(invoices) |-> CsvRow1(customerName, customerEmail, invoices[i])]

CsvFolder == 1226

\* the id file.save returns: the files saved so far are numbered from 1
NextFileId(cs) ==
    Cardinality({i \in 1..Len(cs) : cs[i].api = "file.save" /\ cs[i].ok}) + 1

\* createCSVFile(customerName, customerEmail, invoices); now is Date.now()
createCSVFile(customerId, customerName, customerEmail, invoices, now, a) ==
    LET csvFile == [name |-> <<"Overdue_Invoices_", ReplaceNonAlnum(customerName),
                               "_", now, ".csv">>,
                    fileType |-> "CSV",
                    contents |-> CsvContent1(customerName, customerEmail, invoices),
                    folder |-> CsvFolder]
        fileId == NextFileId(calls)
        loaded == [id |-> fileId] @@ csvFile
        create(ok) == Call("file.create", customerId, csvFile, ok,
                           IF ok THEN csvFile ELSE FileError("create"))
        save(ok) == Call("file.save", customerId, csvFile, ok,
                         IF ok THEN fileId ELSE FileError("save"))
        load(ok) == Call("file.load", customerId, [id |-> fileId], ok,
                         IF ok THEN loaded ELSE FileError("load"))
        failed(op) == Log("error", "CSV Creation Error",
                          [customerName |-> customerName,
                           message |-> FileError(op).message])
        created == Log("debug", "CSV File Created",
                       [fileId |-> fileId, customerName |-> customerName])
    IN  CASE a.file = "create" ->
               Raised(FileError("create"), <<create(FALSE)>>, <<failed("create")>>)
          [] a.file = "save" ->
               Raised(FileError("save"), <<create(TRUE), save(FALSE)>>,
                      <<failed("save")>>)
          [] a.file = "load" ->
               Raised(FileError("load"), <<create(TRUE), save(TRUE), load(FALSE)>>,
                      <<created, failed("load")>>)
          [] OTHER ->
               Returned(loaded,
                        <<create(TRUE), save(TRUE), load(TRUE)>>, <<created>>)

DefaultName == <<"C", "u", "s", "t", "o", "m", "e", "r">>

\* mutant: if (customerEmail === null), never true of the '' of an empty field
MissingEmail_strictNull(customerEmail) == FALSE

\* if (!customerEmail): the customer has no e-mail address to send to
MissingEmail(customerEmail) == Falsy(customerEmail)

\* sendCustomerEmail(customerId, invoices): its catch block logs and rethrows
sendCustomerEmail(customerId, invoices, now, a) ==
    LET salesrep == IF Falsy(a.salesrep) THEN <<>> ELSE <<[value |-> a.salesrep]>>
        customerFields == [companyname |-> a.companyname, firstname |-> a.firstname,
                           email |-> a.email, salesrep |-> salesrep]
        lookup(ok) == Call("search.lookupFields", customerId,
                           [type |-> "customer", id |-> customerId], ok,
                           IF ok THEN customerFields ELSE LookupError)
        customerName == OrElse(OrElse(customerFields.companyname,
                                      customerFields.firstname), DefaultName)
        customerEmail == customerFields.email
        salesRepId == IF Len(salesrep) > 0 THEN salesrep[1].value ELSE <<>>
        rethrown(e, cs, ls) ==
            Raised(e, cs,
                   ls \o <<Log("error", "Email Send Error",
                               [customerId |-> customerId, message |-> e.message])>>)
    IN  IF a.lookup = "throws"
        THEN rethrown(LookupError, <<lookup(FALSE)>>, <<>>)
        ELSE IF MissingEmail(customerEmail)
        THEN Returned("skipped", <<lookup(TRUE)>>,
                      <<Log("error", "Missing Email",
                            [customerName |-> customerName,
                             customerId |-> customerId])>>)
        ELSE LET sender == getSenderId1(customerId, salesRepId, customerName, a)
                 csv == createCSVFile(customerId, customerName, customerEmail,
                                      invoices, now, a)
                 cs == <<lookup(TRUE)>> \o sender.calls \o csv.calls
                 ls == sender.logs \o csv.logs
             IN  IF ~csv.ok
                 THEN rethrown(csv.error, cs, ls)
                 ELSE LET send(ok) ==
                              Call("email.send", customerId,
                                   [author |-> sender.value,
                                    recipients |-> customerEmail,
                                    subject |-> Subject,
                                    body |-> <<"Dear ", customerName,
                                               ",\n\nPlease find attached your overdue invoices.">>,
                                    attachments |-> <<csv.value>>], ok,
                                   IF ok THEN "" ELSE SendError)
                      IN  IF a.send = "throws"
                          THEN rethrown(SendError, Append(cs, send(FALSE)), ls)
                          ELSE Returned("sent", Append(cs, send(TRUE)),
                                        Append(ls,
                                            Log("audit", "Email Sent",
                                                [customerEmail |-> customerEmail,
                                                 count |-> Len(invoices)])))

\* whether the pass reads the clock (Date.now() in createCSVFile)
ReadsClock1(a) == a.lookup = "ok" /\ ~MissingEmail(a.email)

\* mutant: the loop without its try/catch, the error leaves execute
processCustomerNotifications_step_uncaught(now, a) ==
    /\ variant = 1 /\ pc = "notify" /\ pending # <<>>
    /\ NotAfter(clock, now)
    /\ LET customerId == Head(pending)
           r == sendCustomerEmail(customerId, customerInvoices[customerId], now, a)
       IN  /\ calls' = calls \o r.calls
           /\ logs' = IF r.ok
                      THEN logs \o r.logs
                      ELSE logs \o r.logs \o
                           <<Log("error", "Script Execution Error", r.error)>>
           /\ thrown' = IF r.ok THEN thrown ELSE r.error.message
           /\ pc' = IF r.ok THEN pc ELSE "failed"
    /\ clock' = IF ReadsClock1(a) THEN now ELSE clock
    /\ pending' = Tail(pending)
    /\ UNCHANGED <<variant, results, customerInvoices, origin,
                   processedInvoices, invoiceCount>>

\* one pass of the for-in loop of processCustomerNotifications
processCustomerNotifications_step(now, a) ==
    /\ variant = 1 /\ pc = "notify" /\ pending # <<>>
    /\ NotAfter(clock, now)
    /\ LET customerId == Head(pending)
           r == sendCustomerEmail(customerId, customerInvoices[customerId], now, a)
       IN  /\ calls' = calls \o r.calls
           /\ logs' = IF r.ok
                      THEN logs \o r.logs
                      ELSE logs \o r.logs \o
                           <<Log("error", "Customer Processing Error",
                                 [customerId |-> customerId,
                                  message |-> r.error.message])>>
    /\ clock' = IF ReadsClock1(a) THEN now ELSE clock
    /\ pending' = Tail(pending)
    /\ UNCHANGED <<variant, pc, results, customerInvoices, origin,
                   processedInvoices, invoiceCount, thrown>>

\* the loop is over: execute logs the end of the script and returns
execute1_end ==
    /\ variant = 1 /\ pc = "notify" /\ pending = <<>>
    /\ logs' = Append(logs,
                  Log("audit", "Script End",
                      "Overdue Invoice Email Notification script completed successfully."))
    /\ pc' = "done"
    /\ UNCHANGED <<variant, results, customerInvoices, origin, processedInvoices,
                   invoiceCount, clock, pending, calls, thrown>>

-----------------------------------------------------------------------------
(* Variant 2: getSenderId, generateCsvFile, notifyCustomers *)

\* getSenderId(salesRepId)
getSenderId2(customerId, salesRepId, a) ==
    IF Falsy(salesRepId)
    THEN Returned(AdminId, <<>>, <<>>)
    ELSE LET load(ok, result) ==
                 Call("record.load", customerId,
                      [type |-> "employee", id |-> salesRepId], ok, result)
         IN  CASE a.employee = "throws" ->
                    Returned(AdminId, <<load(FALSE, EmployeeError)>>,
                             <<Log("error", "Sales Rep Load Error",
                                   [salesRepId |-> salesRepId,
                                    message |-> EmployeeError.message])>>)
               [] a.employee = "email" ->
                    Returned(salesRepId, <<load(TRUE, [email |-> RepEmail])>>, <<>>)
               [] OTHER ->
                    Returned(AdminId, <<load(TRUE, [email |-> <<>>])>>, <<>>)

CsvHeader2 == <<"Invoice Number", "Amount", "Days Overdue">>

CsvRow2(inv) == <<inv.invoiceNumber, inv.amount, inv.daysOverdue>>

\* csvContent of variants 2 and 3 as its lines
CsvContent2(invoices) ==
    <<CsvHeader2>> \o [i \in 1..Len(invoices) |-> CsvRow2(invoices[i])]

\* generateCsvFile(customerName, invoices), and the file.create of variant 3
generateCsvFile(customerId, customerName, invoices, a) ==
    LET csvFile == [name |-> <<"Overdue_Invoices_", customerName, ".csv">>,
                    fileType |-> "CSV",
                    contents |-> CsvContent2(invoices)]
    IN  IF a.file = "create"
        THEN Raised(FileError("create"),
                    <<Call("file.create", customerId, csvFile, FALSE,
                           FileError("create"))>>, <<>>)
        ELSE Returned(csvFile,
                      <<Call("file.create", customerId, csvFile, TRUE, csvFile)>>, <<>>)

\* the body of the try block of notifyCustomers for one customer
notifyCustomer2(customerId, invoices, a) ==
    LET customerRecord == [companyname |-> a.companyname, firstname |-> a.firstname,
                           email |-> a.email, salesrep |-> a.salesrep]
        load(ok) == Call("record.load", customerId,
                         [type |-> "customer", id |-> customerId], ok,
                         IF ok THEN customerRecord ELSE LookupError)
        customerName == OrElse(customerRecord.companyname, customerRecord.firstname)
        customerEmail == customerRecord.email
        salesRepId == customerRecord.salesrep
    IN  IF a.lookup = "throws"
        THEN Raised(LookupError, <<load(FALSE)>>, <<>>)
        ELSE IF MissingEmail(customerEmail)
        THEN Returned("skipped", <<load(TRUE)>>, <<>>)
        ELSE LET sender == getSenderId2(customerId, salesRepId, a)
                 csv == generateCsvFile(customerId, customerName, invoices, a)
                 cs == <<load(TRUE)>> \o sender.calls \o csv.calls
                 ls == sender.logs \o csv.logs
             IN  IF ~csv.ok
                 THEN Raised(csv.error, cs, ls)
                 ELSE LET send(ok) ==
                              Call("email.send", customerId,
                                   [author |-> sender.value,
                                    recipients |-> customerEmail,
                                    subject |-> Subject,
                                    body |-> <<"Dear ", customerName,
                                               ",\n\nPlease find attached your overdue invoices.">>,
                                    attachments |-> <<csv.value>>], ok,
                                   IF ok THEN "" ELSE SendError)
                      IN  IF a.send = "throws"
                          THEN Raised(SendError, Append(cs, send(FALSE)), ls)
                          ELSE Returned("sent", Append(cs, send(TRUE)), ls)

\* mutant: a failed email.send is tried a second time
notifyCustomers_step_retry(a) ==
    /\ variant = 2 /\ pc = "notify" /\ pending # <<>>
    /\ LET customerId == Head(pending)
           r == notifyCustomer2(customerId, customerInvoices[customerId], a)
           again == IF ~r.ok /\ r.calls[Len(r.calls)].api = "email.send"
                    THEN <<r.calls[Len(r.calls)]>>
                    ELSE <<>>
       IN  /\ calls' = calls \o r.calls \o again
           /\ logs' = IF r.ok
                      THEN logs \o r.logs
                      ELSE logs \o r.logs \o
                           <<Log("error", "Email Error",
                                 [customerId |-> customerId,
                                  message |-> r.error.message])>>
    /\ pending' = Tail(pending)
    /\ UNCHANGED <<variant, pc, results, customerInvoices, origin,
                   processedInvoices, invoiceCount, clock, thrown>>

\* one pass of the for-in loop of notifyCustomers
notifyCustomers_step(a) ==
    /\ variant = 2 /\ pc = "notify" /\ pending # <<>>
    /\ LET customerId == Head(pending)
           r == notifyCustomer2(customerId, customerInvoices[customerId], a)
       IN  /\ calls' = calls \o r.calls
           /\ logs' = IF r.ok
                      THEN logs \o r.logs
                      ELSE logs \o r.logs \o
                           <<Log("error", "Email Error",
                                 [customerId |-> customerId,
                                  message |-> r.error.message])>>
    /\ pending' = Tail(pending)
    /\ UNCHANGED <<variant, pc, results, customerInvoices, origin,
                   processedInvoices, invoiceCount, clock, thrown>>

\* the loop is over: notifyCustomers and execute return
notifyCustomers_end ==
    /\ variant = 2 /\ pc = "notify" /\ pending = <<>>
    /\ pc' = "done"
    /\ UNCHANGED <<variant, results, customerInvoices, origin, processedInvoices,
                   invoiceCount, clock, pending, calls, logs, thrown>>

-----------------------------------------------------------------------------
(* Variant 3: the customer loop of execute *)

\* runtime.getCurrentUser().id of a scheduled script: the system user
CurrentUserId == -4

\* the body of the try block of the customer loop for one customer
notifyCustomer3(customerId, invoices, a) ==
    LET customerRecord == [companyname |-> a.companyname, firstname |-> a.firstname,
                           email |-> a.email, salesrep |-> a.salesrep]
        load(ok) == Call("record.load", customerId,
                         [type |-> "customer", id |-> customerId], ok,
                         IF ok THEN customerRecord ELSE LookupError)
        customerName == OrElse(customerRecord.companyname, customerRecord.firstname)
        customerEmail == customerRecord.email
        salesRepId == customerRecord.salesrep
        senderId == IF Falsy(salesRepId) THEN CurrentUserId ELSE salesRepId
        preparing == Log("audit", "Preparing Email",
                         [customerName |-> customerName,
                          customerEmail |-> customerEmail, senderId |-> senderId])
    IN  IF a.lookup = "throws"
        THEN Raised(LookupError, <<load(FALSE)>>, <<>>)
        ELSE IF MissingEmail(customerEmail)
        THEN Returned("skipped", <<load(TRUE)>>,
                      <<Log("error", "Missing Email",
                            [customerName |-> customerName,
                             customerId |-> customerId])>>)
        ELSE LET csv == generateCsvFile(customerId, customerName, invoices, a)
                 cs == <<load(TRUE)>> \o csv.calls
                 ls == <<preparing>> \o csv.logs
             IN  IF ~csv.ok
                 THEN Raised(csv.error, cs, ls)
                 ELSE LET send(ok) ==
                              Call("email.send", customerId,
                                   [author |-> senderId,
                                    recipients |-> customerEmail,
                                    subject |-> Subject,
                                    body |-> <<"Dear ", customerName,
                                               ",\n\nPlease find attached your overdue invoices">>,
                                    attachments |-> <<csv.value>>], ok,
                                   IF ok THEN "" ELSE SendError)
                      IN  IF a.send = "throws"
                          THEN Raised(SendError, Append(cs, send(FALSE)), ls)
                          ELSE Returned("sent", Append(cs, send(TRUE)),
                                        Append(ls,
                                            Log("audit", "Email Sent",
                                                [customerEmail |-> customerEmail,
                                                 count |-> Len(invoices)])))

\* mutant: the pass builds its CSV from the first group, not the customer's own
execute3_step_firstGroup(a) ==
    /\ variant = 3 /\ pc = "notify" /\ pending # <<>>
    /\ LET customerId == Head(pending)
           first == Head(KeysInOrder(DOMAIN customerInvoices))
           r == notifyCustomer3(customerId, customerInvoices[first], a)
       IN  /\ calls' = calls \o r.calls
           /\ logs' = IF r.ok
                      THEN logs \o r.logs
                      ELSE logs \o r.logs \o
                           <<Log("error", "Email Error",
                                 [customerId |-> customerId,
                                  message |-> r.error.message])>>
    /\ pending' = Tail(pending)
    /\ UNCHANGED <<variant, pc, results, customerInvoices, origin,
                   processedInvoices, invoiceCount, clock, thrown>>

\* one pass of the for-in loop of execute
execute3_step(a) ==
    /\ variant = 3 /\ pc = "notify" /\ pending # <<>>
    /\ LET customerId == Head(pending)
           r == notifyCustomer3(customerId, customerInvoices[customerId], a)
       IN  /\ calls' = calls \o r.calls
           /\ logs' = IF r.ok
                      THEN logs \o r.logs
                      ELSE logs \o r.logs \o
                           <<Log("error", "Email Error",
                                 [customerId |-> customerId,
                                  message |-> r.error.message])>>
    /\ pending' = Tail(pending)
    /\ UNCHANGED <<variant, pc, results, customerInvoices, origin,
                   processedInvoices, invoiceCount, clock, thrown>>

\* the loop is over: execute logs the end of the script and returns
execute3_end_loop ==
    /\ variant = 3 /\ pc = "notify" /\ pending = <<>>
    /\ logs' = Append(logs,
                  Log("audit", "Script End",
                      "Overdue Invoice Email Notification script completed."))
    /\ pc' = "done"
    /\ UNCHANGED <<variant, results, customerInvoices, origin, processedInvoices,
                   invoiceCount, clock, pending, calls, thrown>>

-----------------------------------------------------------------------------
(* Inputs: search result rows, clock readings, platform answers *)

\* a search result row: result.getValue of 'entity', 'tranid', 'amount' and
\* 'duedate' (the due date as the instant new Date(...) makes of it)
Row(entity, tranid, amount, duedate) ==
    [entity |-> entity, tranid |-> tranid, amount |-> amount, duedate |-> duedate]

Jan01 == [d |-> 19723, ms |-> 0]   \* 2024-01-01T00:00:00.000Z
Mar01 == [d |-> 19783, ms |-> 0]   \* 2024-03-01T00:00:00.000Z

NoName == [companyname |-> <<>>, firstname |-> <<>>]
Company == [companyname |-> <<"A", "&", "B">>, firstname |-> <<>>]
Person == [companyname |-> <<>>, firstname |-> <<"A", "l">>]

NoEmail == <<>>
SomeEmail == <<"a", "@", "x">>

NoRep == <<>>
Rep42 == <<"4", "2">>

\* the answers of the platform, one record per distinguishable pass
Answers(names, emails, reps, employees, files, sends) ==
    {Answer("throws", NoName, NoEmail, NoRep, "noemail", "ok", "ok")}
    \cup {Answer("ok", n, NoEmail, NoRep, "noemail", "ok", "ok") : n \in names}
    \cup {Answer("ok", n, NoEmail, r, m, "ok", "ok") :
            n \in names, r \in reps \ {NoRep}, m \in employees}
    \cup {Answer("ok", n, e, NoRep, "noemail", f, "ok") :
            n \in names, e \in emails \ {NoEmail}, f \in files}
    \cup {Answer("ok", n, e, NoRep, "noemail", "ok", "throws") :
            n \in names, e \in emails \ {NoEmail}}
    \cup {Answer("ok", n, e, r, m, f, "ok") :
            n \in names, e \in emails \ {NoEmail}, r \in reps \ {NoRep},
            m \in employees, f \in files}
    \cup {Answer("ok", n, e, r, m, "ok", "throws") :
            n \in names, e \in emails \ {NoEmail}, r \in reps \ {NoRep},
            m \in employees}

\* one step of the run of a variant, on inputs drawn from the given sets
Run(rows, nows, answers) ==
    \/ execute1_start
    \/ \E stage \in SearchStages : searchOverdueInvoices_throws(stage)
    \/ \E row \in rows, now \in nows : searchOverdueInvoices_each(row, now)
    \/ searchOverdueInvoices_end
    \/ \E now \in nows, a \in answers : processCustomerNotifications_step(now, a)
    \/ execute1_end
    \/ getOverdueInvoices_start
    \/ \E stage \in SearchStages : getOverdueInvoices_throws(stage)
    \/ \E row \in rows, now \in nows : getOverdueInvoices_each(row, now)
    \/ getOverdueInvoices_end
    \/ \E a \in answers : notifyCustomers_step(a)
    \/ notifyCustomers_end
    \/ execute3_start
    \/ \E stage \in SearchStages : execute3_throws(stage)
    \/ \E row \in rows, now \in nows : execute3_each(row, now)
    \/ execute3_end
    \/ \E a \in answers : execute3_step(a)
    \/ execute3_end_loop

-----------------------------------------------------------------------------
(* Spec: whole runs, every platform failure, two customers *)

RunRows ==
    {Row(c, <<"7">>, 100, Jan01) : c \in {<<>>, <<"1">>, <<"2">>}}

RunNows == {Mar01}

RunAnswers ==
    Answers({NoName, Company}, {NoEmail, SomeEmail}, {NoRep, Rep42},
            {"email", "noemail", "throws"}, {"ok", "create", "save", "load"},
            {"ok", "throws"})

Next == Run(RunRows, RunNows, RunAnswers)

Spec == Init /\ [][Next]_vars

TypeOK ==
    /\ variant \in {1, 2, 3}
    /\ pc \in {"start", "each", "notify", "done", "failed"}
    /\ Len(results) <= MaxRows
    /\ DOMAIN origin = DOMAIN customerInvoices

-----------------------------------------------------------------------------
(* SpecData: search results with repeated invoices, every pass succeeding *)

DataRows ==
    {Row(c, n, amt, Jan01) :
        c \in {<<>>, <<"1">>, <<"1", "1">>}, n \in {<<"7">>, <<"1", "7">>},
        amt \in {100, 250}}

DataNows == {Mar01}

DataAnswers ==
    {Answer("ok", n, SomeEmail, NoRep, "noemail", "ok", "ok") : n \in {NoName, Company}}

NextData == Run(DataRows, DataNows, DataAnswers)

SpecData == Init /\ [][NextData]_vars

-----------------------------------------------------------------------------
(* SpecDays: due dates and clock readings around the day boundaries *)

Feb29Noon == [d |-> 19782, ms |-> 12 * 60 * 60 * 1000]
Mar01Last == [d |-> 19783, ms |-> MsPerDay - 1]
Mar02 == [d |-> 19784, ms |-> 0]

DaysRows ==
    {Row(<<"1">>, <<"7">>, 100, due) : due \in {Jan01, Feb29Noon, Mar01, Mar01Last, Mar02}}

DaysNows == {Mar01, [d |-> 19783, ms |-> 1], Mar01Last, Mar02}

DaysAnswers == {Answer("ok", Person, SomeEmail, NoRep, "noemail", "ok", "ok")}

NextDays == Run(DaysRows, DaysNows, DaysAnswers)

SpecDays == Init /\ [][NextDays]_vars

-----------------------------------------------------------------------------
(* Vocabulary of the properties *)

\* the customer groups of the run
Groups == DOMAIN customerInvoices

\* the calls made while the loop stood at customer c
CallsOf(c) == {i \in 1..Len(calls) : calls[i].customer = c}

IsLookup(k) == k.api \in {"search.lookupFields", "record.load"}
IsCustomerLookup(k) == IsLookup(k) /\ k.args.type = "customer"
IsEmployeeLookup(k) == IsLookup(k) /\ k.args.type = "employee"
IsFileCall(k) == k.api \in {"file.create", "file.save", "file.load"}
IsSend(k) == k.api = "email.send"

CustomerLookupsOf(c) == {i \in CallsOf(c) : IsCustomerLookup(calls[i])}
EmployeeLookupsOf(c) == {i \in CallsOf(c) : IsEmployeeLookup(calls[i])}
SendsOf(c) == {i \in CallsOf(c) : IsSend(calls[i])}

\* the loop has been at c
Visited(c) == c \in Groups /\ CallsOf(c) # {}

\* the customer lookup of c returned the customer's fields
Found(c) == \E i \in CustomerLookupsOf(c) : calls[i].ok

\* the fields it returned
FieldsOf(c) == calls[CHOOSE i \in CustomerLookupsOf(c) : calls[i].ok].result

HasEmail(c) == Found(c) /\ FieldsOf(c).email # <<>>

\* the calls of c's pass that raised an error into the pass: a customer
\* lookup, a file call or email.send (getSenderId keeps its own)
FailuresOf(c) == {i \in CallsOf(c) : ~calls[i].ok /\ ~IsEmployeeLookup(calls[i])}

\* the error entries the catch block of the customer loop wrote for c
LoopErrorsOf(c) ==
    {i \in 1..Len(logs) :
        /\ logs[i].level = "error"
        /\ logs[i].title \in {"Customer Processing Error", "Email Error"}
        /\ logs[i].details.customerId = c}

\* the loop has ended and every group has had its one pass
AllVisited == \A c \in Groups : Cardinality(CustomerLookupsOf(c)) = 1

\* c got its e-mail
Sent(c) == \E i \in SendsOf(c) : calls[i].ok

-----------------------------------------------------------------------------
(* C1: a failure while processing one customer (its lookup, a file call or  *)
(* email.send raising) is caught at the customer loop: an error entry with  *)
(* the customer's id and the error's message is logged, nothing reaches the *)
(* scheduler, and when the run ends every other group has had its pass and  *)
(* every other customer with an address and no failure has its e-mail.      *)
C1_FailureIsolated ==
    \A c \in Groups :
        (Visited(c) /\ FailuresOf(c) # {}) =>
            /\ thrown = NoError
            /\ pc \in {"notify", "done"}
            /\ \E l \in LoopErrorsOf(c) : \E f \in FailuresOf(c) :
                   logs[l].details.message = calls[f].result.message
            /\ pc = "done" =>
                   \A o \in Groups \ {c} :
                       /\ Cardinality(CustomerLookupsOf(o)) = 1
                       /\ (HasEmail(o) /\ FailuresOf(o) = {}) => Sent(o)

\* a finished run in which the first customer's pass failed and the second
\* customer still got its e-mail
C1_Witness ==
    /\ pc = "done"
    /\ \E c \in Groups, o \in Groups :
           /\ FailuresOf(c) # {} /\ Sent(o)
           /\ \A i \in CallsOf(c), j \in CallsOf(o) : i < j

-----------------------------------------------------------------------------
(* C2: a customer with an e-mail address whose pass met no failure gets     *)
(* exactly one email.send, to that address, with the subject "Overdue       *)
(* Invoice Notification" and exactly one attachment; no customer gets more  *)
(* than one email.send in a run, failures or not, and a finished run has    *)
(* passed every group exactly once.                                         *)
C2_OneEmailPerCustomer ==
    /\ \A c \in Groups :
           (Visited(c) /\ HasEmail(c) /\ FailuresOf(c) = {}) =>
               \E i \in SendsOf(c) :
                   /\ SendsOf(c) = {i}
                   /\ calls[i].ok
                   /\ calls[i].args.recipients = FieldsOf(c).email
                   /\ calls[i].args.subject = "Overdue Invoice Notification"
                   /\ Len(calls[i].args.attachments) = 1
    /\ \A i \in 1..Len(calls) : \A j \in 1..Len(calls) :
           (IsSend(calls[i]) /\ IsSend(calls[j])
               /\ calls[i].customer = calls[j].customer) => i = j
    /\ \A i \in 1..Len(calls) : calls[i].customer \in Groups
    /\ (pc = "done" /\ Groups # {}) => AllVisited

\* a finished run with two customers, each sent its one e-mail
C2_Witness ==
    /\ pc = "done"
    /\ Cardinality(Groups) = 2
    /\ \A c \in Groups : Sent(c) /\ Cardinality(SendsOf(c)) = 1

-----------------------------------------------------------------------------
(* C3: a customer whose record has no e-mail address is left out: its pass  *)
(* makes the customer lookup and nothing else (no email.send, no file call, *)
(* no sales rep lookup), raises nothing, and the loop goes on to the next   *)
(* group.                                                                   *)
C3_NoEmailSkipped ==
    \A c \in Groups :
        (Visited(c) /\ Found(c) /\ FieldsOf(c).email = <<>>) =>
            /\ CallsOf(c) = CustomerLookupsOf(c)
            /\ Cardinality(CallsOf(c)) = 1
            /\ LoopErrorsOf(c) = {}
            /\ thrown = NoError
            /\ pc \in {"notify", "done"}
            /\ pc = "done" => AllVisited

\* a finished run in which a customer with a sales rep and no address was
\* skipped and the customer after it got its e-mail
C3_Witness ==
    /\ pc = "done"
    /\ \E c \in Groups, o \in Groups :
           /\ Found(c) /\ FieldsOf(c).email = <<>> /\ FieldsOf(c).salesrep # <<>>
           /\ Sent(o)
           /\ \A i \in CallsOf(c), j \in CallsOf(o) : i < j

-----------------------------------------------------------------------------
(* C4: getSenderId of variants 1 and 2.  With no sales rep assigned the     *)
(* sender is the administrator, -5, and no employee lookup is made.  With a *)
(* sales rep assigned, one employee lookup is made for it: if it returns an *)
(* e-mail address the sender is the sales rep's id, and if it returns none  *)
(* or raises the sender is -5, nothing is raised into the customer's pass,  *)
(* and the customer's e-mail is still sent, with -5 as author, unless a     *)
(* file call or email.send itself fails.                                    *)

\* the sales rep id the customer lookup returned, <<>> when none
SalesRepOf(c) ==
    IF variant = 1
    THEN IF Len(FieldsOf(c).salesrep) > 0 THEN FieldsOf(c).salesrep[1].value ELSE <<>>
    ELSE FieldsOf(c).salesrep

\* every email.send of c has this author
AuthorIs(c, id) == \A i \in SendsOf(c) : calls[i].args.author = id

\* the employee lookup of c returned an e-mail address
RepHasEmail(c) ==
    \E i \in EmployeeLookupsOf(c) : calls[i].ok /\ calls[i].result.email # <<>>

C4_SenderResolution ==
    variant \in {1, 2} =>
        \A c \in Groups :
            (Visited(c) /\ HasEmail(c)) =>
                IF SalesRepOf(c) = <<>>
                THEN EmployeeLookupsOf(c) = {} /\ AuthorIs(c, -5)
                ELSE /\ Cardinality(EmployeeLookupsOf(c)) = 1
                     /\ \A i \in EmployeeLookupsOf(c) :
                            calls[i].args.id = SalesRepOf(c)
                     /\ IF RepHasEmail(c)
                        THEN /\ variant = 1 /\ SalesRepOf(c) = <<"4", "2">>
                                  => AuthorIs(c, 42)
                             /\ variant = 2 => AuthorIs(c, SalesRepOf(c))
                        ELSE /\ AuthorIs(c, -5)
                             /\ thrown = NoError
                             /\ \A l \in LoopErrorsOf(c) :
                                    logs[l].details.message # EmployeeError.message
                             /\ FailuresOf(c) = {} => Sent(c)

\* a customer whose sales rep lookup raised and who got its e-mail from the
\* administrator, and one whose sales rep has an address and is the author
C4_Witness ==
    /\ variant \in {1, 2}
    /\ pc = "done"
    /\ \E c \in Groups, o \in Groups :
           /\ HasEmail(c) /\ Sent(c)
           /\ \E i \in EmployeeLookupsOf(c) : ~calls[i].ok
           /\ AuthorIs(c, -5)
           /\ HasEmail(o) /\ Sent(o) /\ RepHasEmail(o)

-----------------------------------------------------------------------------
(* Vocabulary of the grouping properties *)

RowIds == 1..Len(results)

HasCustomer(i) == results[i].entity # <<>>

\* rows i and j carry the same (customerId, invoiceNumber) pair
SamePair(i, j) ==
    results[i].entity = results[j].entity /\ results[i].tranid = results[j].tranid

FirstOfPair(i) == \A j \in 1..(i - 1) : ~SamePair(i, j)

\* the rows a variant is to group: those with a customer and, in the primary
\* variant, first of their pair
Kept(i) == HasCustomer(i) /\ (variant = 1 => FirstOfPair(i))

\* the kept rows of customer c from row i on, in search order
RECURSIVE KeptRowsFrom(_, _)
KeptRowsFrom(c, i) ==
    IF i > Len(results) THEN <<>>
    ELSE (IF Kept(i) /\ results[i].entity = c THEN <<i>> ELSE <<>>)
         \o KeptRowsFrom(c, i + 1)

RowsOf(c) == KeptRowsFrom(c, 1)

\* the (customerId, invoiceNumber) pairs returned for customers
Pairs == {<<results[i].entity, results[i].tranid>> : i \in {k \in RowIds : HasCustomer(k)}}

\* every summary of every group, as (customerId, position)
Summaries == UNION {{<<c, j>> : j \in 1..Len(customerInvoices[c])} : c \in Groups}

-----------------------------------------------------------------------------
(* C5: deduplication in searchOverdueInvoices of the primary variant.  A    *)
(* group holds each invoice number at most once; every pair returned for a  *)
(* customer has its summary, made from the first row that carried the pair; *)
(* and invoiceCount counts the distinct pairs, not the rows.                *)
C5_Deduplication ==
    variant = 1 =>
        /\ \A c \in Groups :
               \A i \in 1..Len(customerInvoices[c]) :
                   \A j \in 1..Len(customerInvoices[c]) :
                       customerInvoices[c][i].invoiceNumber
                           = customerInvoices[c][j].invoiceNumber => i = j
        /\ \A i \in RowIds :
               (HasCustomer(i) /\ FirstOfPair(i)) =>
                   /\ results[i].entity \in Groups
                   /\ \E j \in 1..Len(customerInvoices[results[i].entity]) :
                          LET inv == customerInvoices[results[i].entity][j]
                          IN  /\ inv.invoiceNumber = results[i].tranid
                              /\ inv.amount = results[i].amount
                              /\ origin[results[i].entity][j].index = i
        /\ invoiceCount = Cardinality(Pairs)
        /\ invoiceCount = Cardinality(Summaries)

\* a pair returned twice with different amounts around another invoice of
\* the same customer: two summaries, the first amount kept
C5_Witness ==
    /\ variant = 1
    /\ Len(results) = 3
    /\ HasCustomer(1)
    /\ SamePair(1, 3) /\ results[1].amount # results[3].amount
    /\ results[2].entity = results[1].entity /\ ~SamePair(1, 2)
    /\ invoiceCount = 2

-----------------------------------------------------------------------------
(* C6: grouping partitions the search result by customer.  The groups are   *)
(* exactly the customers of the rows; a group is never empty; and the       *)
(* summaries of a group are, in search order, those of the rows returned    *)
(* for that customer (in the primary variant, of the first row of each      *)
(* pair), so that every such row is in its own customer's group exactly     *)
(* once and a group holds nothing else.                                     *)
C6_GroupingPartitions ==
    /\ Groups = {results[i].entity : i \in {k \in RowIds : HasCustomer(k)}}
    /\ DOMAIN origin = Groups
    /\ \A c \in Groups :
           /\ Len(customerInvoices[c]) >= 1
           /\ Len(customerInvoices[c]) = Len(RowsOf(c))
           /\ Len(origin[c]) = Len(RowsOf(c))
           /\ \A j \in 1..Len(RowsOf(c)) :
                  LET row == results[RowsOf(c)[j]]
                      inv == customerInvoices[c][j]
                  IN  /\ row.entity = c
                      /\ inv.invoiceNumber = row.tranid
                      /\ inv.amount = row.amount
                      /\ origin[c][j].index = RowsOf(c)[j]

\* two customers with interleaved rows, one of them returned twice
C6_Witness ==
    /\ variant = 3
    /\ Len(results) = 3
    /\ Cardinality(Groups) = 2
    /\ \E c \in Groups :
           /\ Len(customerInvoices[c]) = 2
           /\ origin[c][1].index = 1 /\ origin[c][2].index = 3

-----------------------------------------------------------------------------
(* C7: a failure of the invoice search is fatal to the run.                 *)

\* the error entries written for a failure of the search
SearchErrorLogs ==
    {l \in 1..Len(logs) :
        /\ logs[l].level = "error"
        /\ logs[l].title \in {"Search Error", "Script Execution Error"}}

\* C7 as claimed: in every variant a run the search failed has logged an
\* error entry with the error's message, re-raised the error, and made no
\* customer lookup, file creation or email.send
C7_AsClaimed ==
    pc = "failed" =>
        /\ thrown # NoError
        /\ \E l \in SearchErrorLogs : logs[l].details.message = thrown
        /\ calls = <<>>

\* C7 as the code has it: in every variant the error of the search reaches
\* the scheduler and the run makes no customer lookup, file creation or
\* email.send; the primary variant logs the error's message (in
\* searchOverdueInvoices and in execute) before re-raising it, and the other
\* two variants, which have no try/catch around the search, log nothing of it.
C7_QueryFailureFatal ==
    /\ thrown # NoError <=> pc = "failed"
    /\ SearchErrorLogs # {} => pc = "failed"
    /\ pc = "failed" =>
           /\ calls = <<>>
           /\ pending = <<>>
           /\ variant = 1 =>
                  \A t \in {"Search Error", "Script Execution Error"} :
                      \E l \in SearchErrorLogs :
                          logs[l].title = t /\ logs[l].details.message = thrown
           /\ variant \in {2, 3} => SearchErrorLogs = {}

\* the search of the primary variant raised after handing over two rows
C7_Witness ==
    /\ pc = "failed"
    /\ variant = 1
    /\ Len(results) = 2
    /\ Groups # {}
    /\ SearchErrorLogs # {}

-----------------------------------------------------------------------------
(* C8: when the search yields no row with a customer (no row at all, or     *)
(* only rows without one) execute writes the "No Invoices Found" audit      *)
(* entry and returns normally: the customer loop is never entered and no    *)
(* customer lookup, file creation or email.send is made.                    *)

NoCustomerRows == \A i \in RowIds : ~HasCustomer(i)

NoInvoicesLogged ==
    \E l \in 1..Len(logs) :
        logs[l].level = "audit" /\ logs[l].title = "No Invoices Found"

C8_ZeroResultsNoOp ==
    /\ (pc = "done" /\ NoCustomerRows) =>
           /\ NoInvoicesLogged
           /\ thrown = NoError
           /\ calls = <<>>
    /\ pc = "notify" => ~NoCustomerRows
    /\ NoInvoicesLogged => (pc = "done" /\ NoCustomerRows)

\* a finished run whose search returned two rows, neither with a customer
C8_Witness ==
    /\ pc = "done"
    /\ Len(results) = 2
    /\ NoCustomerRows
    /\ NoInvoicesLogged

-----------------------------------------------------------------------------
(* C9: the CSV of the primary variant.  For every customer the content      *)
(* starts with the one constant header row, followed by exactly one data    *)
(* row per distinct (customerId, invoiceNumber) pair returned for that      *)
(* customer, in search order: row j carries the invoice number and amount   *)
(* of the j-th first-of-its-pair row of the customer and the days overdue   *)
(* of its summary.                                                          *)

\* the invoice numbers returned for customer c
InvoiceNumbersOf(c) == {results[i].tranid : i \in {k \in RowIds : results[k].entity = c}}

C9_CsvRows ==
    variant = 1 =>
        \A k \in 1..Len(calls) :
            calls[k].api = "file.create" =>
                LET c == calls[k].customer
                    content == calls[k].args.contents
                IN  /\ content[1] = <<"Customer Name", "Customer Email",
                                      "Invoice Document Number", "Invoice Amount",
                                      "Days Overdue">>
                    /\ Len(content) = 1 + Cardinality(InvoiceNumbersOf(c))
                    /\ Len(content) = 1 + Len(RowsOf(c))
                    /\ \A j \in 1..Len(RowsOf(c)) :
                           /\ Len(content[j + 1]) = 5
                           /\ content[j + 1][3] = results[RowsOf(c)[j]].tranid
                           /\ content[j + 1][4] = results[RowsOf(c)[j]].amount
                           /\ content[j + 1][5] = customerInvoices[c][j].daysOverdue

\* a customer returned three times, twice with the same invoice number, whose
\* CSV has the header and two data rows
C9_Witness ==
    /\ variant = 1
    /\ Len(results) = 3
    /\ \A i \in RowIds : results[i].entity = <<"1">>
    /\ SamePair(1, 3) /\ ~SamePair(1, 2)
    /\ \E k \in 1..Len(calls) :
           /\ calls[k].api = "file.create" /\ calls[k].customer = <<"1">>
           /\ Len(calls[k].args.contents) = 3

-----------------------------------------------------------------------------
(* C10: days overdue.  For every grouped invoice daysOverdue is             *)
(* floor((now - dueDate) / 86400000): dueDate plus daysOverdue days is not  *)
(* after now and dueDate plus daysOverdue + 1 days is; it is >= 0 whenever  *)
(* the due date is not after now; and a due date of 2024-01-01 read on      *)
(* 2024-03-01 gives 60.                                                     *)

AddDays(t, n) == [d |-> t.d + n, ms |-> t.ms]

Before(a, b) == a.d < b.d \/ (a.d = b.d /\ a.ms < b.ms)

C10_DaysOverdue ==
    \A c \in Groups :
        \A j \in 1..Len(customerInvoices[c]) :
            LET n == customerInvoices[c][j].daysOverdue
                now == origin[c][j].now
                due == results[origin[c][j].index].duedate
            IN  /\ ~Before(now, AddDays(due, n))
                /\ Before(now, AddDays(due, n + 1))
                /\ ~Before(now, due) => n >= 0
                /\ (due = [d |-> 19723, ms |-> 0] /\ now = [d |-> 19783, ms |-> 0])
                       => n = 60

\* one customer with an invoice 60 days overdue, one due half a day ago and
\* one due after the clock reading
C10_Witness ==
    \E c \in Groups :
        /\ Len(customerInvoices[c]) = 3
        /\ customerInvoices[c][1].daysOverdue = 60
        /\ customerInvoices[c][2].daysOverdue = 0
        /\ results[origin[c][2].index].duedate.ms # origin[c][2].now.ms
        /\ customerInvoices[c][3].daysOverdue < 0

-----------------------------------------------------------------------------
(* C11: result rows without a customer identifier.                          *)

\* the rows the search returned without a customer
RowsWithoutCustomer == {i \in RowIds : ~HasCustomer(i)}

\* the entries logged for skipping a row without a customer
SkipLogs ==
    {l \in 1..Len(logs) : logs[l].title = "Missing Customer ID"}

\* the rows with a customer since the last row without one are all grouped:
\* the iteration went on after the skip
GroupedAfterSkip ==
    \A i \in RowsWithoutCustomer :
        \A k \in (i + 1)..Len(results) :
            Kept(k) => \E j \in 1..Len(origin[results[k].entity]) :
                           origin[results[k].entity][j].index = k

\* C11 as claimed: in every variant a row without a customer adds no summary
\* to any group and has its skip recorded by a log entry
C11_AsClaimed ==
    /\ <<>> \notin Groups
    /\ Cardinality(Summaries) = Cardinality({i \in RowIds : Kept(i)})
    /\ Cardinality(SkipLogs) = Cardinality(RowsWithoutCustomer)

\* C11 as the code has it: in every variant a row without a customer adds
\* no summary to any group, is not fatal, and the iteration goes on with the
\* next row, the rows with a customer before and after it being grouped as
\* if it were absent; the part_000 variant writes one "Missing Customer ID"
\* error entry per such row, and the two variants of
\* _jj_sc_monthly_overdue_email.js skip the row without any log entry.
C11_RowsWithoutCustomerSkipped ==
    /\ <<>> \notin Groups
    /\ Cardinality(Summaries) = Cardinality({i \in RowIds : Kept(i)})
    /\ \A c \in Groups : \A j \in 1..Len(origin[c]) :
           HasCustomer(origin[c][j].index)
    /\ GroupedAfterSkip
    /\ (RowsWithoutCustomer # {} /\ pc \in {"each", "notify", "done"})
           => thrown = NoError
    /\ variant = 3 =>
           /\ Cardinality(SkipLogs) = Cardinality(RowsWithoutCustomer)
           /\ \A l \in SkipLogs : logs[l].level = "error"
           /\ invoiceCount = Cardinality(RowIds \ RowsWithoutCustomer)
    /\ variant \in {1, 2} => SkipLogs = {}

\* a row without a customer between two rows of one customer, both grouped,
\* in the part_000 variant, which logged the skip
C11_Witness ==
    /\ variant = 3
    /\ Len(results) = 3
    /\ RowsWithoutCustomer = {2}
    /\ results[1].entity = results[3].entity
    /\ Len(customerInvoices[results[1].entity]) = 2
    /\ Cardinality(SkipLogs) = 1

-----------------------------------------------------------------------------
(* C12: attachment isolation and ordering.                                  *)

\* the file.create calls made while the loop stood at customer c
FileCreatesOf(c) == {i \in CallsOf(c) : calls[i].api = "file.create"}

\* the calls of c's pass stand next to each other in the order of calls
OnePass(c) ==
    \A i \in CallsOf(c) : \A j \in CallsOf(c) :
        \A k \in i..j : k \in CallsOf(c)

\* the invoice number, amount and days overdue a CSV data row carries
InvoiceOfCsvRow(csvRow) ==
    IF variant = 1 THEN <<csvRow[3], csvRow[4], csvRow[5]>> ELSE csvRow

\* the CSV data rows of the file are, in order, the summaries of c's group,
\* each made from a result row returned for c
RowsAreOwn(c, content) ==
    /\ Len(content) = 1 + Len(customerInvoices[c])
    /\ Len(content) = 1 + Len(RowsOf(c))
    /\ \A j \in 1..Len(customerInvoices[c]) :
           LET inv == customerInvoices[c][j]
               row == results[origin[c][j].index]
           IN  /\ InvoiceOfCsvRow(content[j + 1]) =
                      <<inv.invoiceNumber, inv.amount, inv.daysOverdue>>
               /\ row.entity = c
               /\ row.tranid = inv.invoiceNumber
               /\ row.amount = inv.amount

\* C12: in all three variants every email.send call for customer c comes
\* after the invoice search has been consumed and, within the same pass of
\* the customer loop, after the customer lookup for c and the creation of
\* exactly one CSV file for c; the one attachment of the e-mail is that file,
\* and each of its data rows is an invoice summary of c's own group made from
\* a result row returned for c, so no e-mail carries a row of another customer.
C12_AttachmentIsolation ==
    /\ calls # <<>> => pc \in {"notify", "done"}
    /\ \A s \in 1..Len(calls) :
           IsSend(calls[s]) =>
               LET c == calls[s].customer
                   attachments == calls[s].args.attachments
               IN  /\ c \in Groups
                   /\ OnePass(c)
                   /\ Cardinality(FileCreatesOf(c)) = 1
                   /\ Cardinality(SendsOf(c)) = 1
                   /\ \E l \in CustomerLookupsOf(c) : \E f \in FileCreatesOf(c) :
                          /\ l < f /\ f < s
                          /\ calls[l].ok /\ calls[f].ok
                          /\ Len(attachments) = 1
                          /\ attachments[1].name = calls[f].args.name
                          /\ attachments[1].contents = calls[f].args.contents
                          /\ RowsAreOwn(c, attachments[1].contents)

\* a finished run over two customers whose rows alternate in the search
\* results, each of them sent its e-mail
C12_Witness ==
    /\ pc = "done"
    /\ Len(results) = 3
    /\ results[1].entity = <<"1", "1">>
    /\ results[2].entity = <<"1">>
    /\ results[3].entity = <<"1", "1">>
    /\ results[1].tranid # results[3].tranid
    /\ Sent(<<"1">>) /\ Sent(<<"1", "1">>)

====
